---------------------------- MODULE Spec2Model ----------------------------
(***************************************************************************)
(* Model of src/src/chromium/crAccessibility.ts: the CRAXNode tree that    *)
(* createTree assembles from the flat Accessibility.getFullAXTree payload, *)
(* its classification predicates, its search and its serializer.           *)
(*                                                                         *)
(* JavaScript values are modelled as strings.  A string stands for itself; *)
(* every value of another type is written with a leading "#": "#true" and  *)
(* "#false" are the booleans, "#0", "#1", "#2" are numbers, "#undefined"   *)
(* is undefined and "#null" is null.  So the boolean true ("#true") and    *)
(* the string 'true' ("true") are different values, as they are for ===.   *)
(* An optional payload field is a record field that may be missing.        *)
(***************************************************************************)
EXTENDS Naturals, Sequences, FiniteSets, TLC

VARIABLES
    payloads,   \* the Protocol.Accessibility.AXNode[] handed to createTree
    pc,         \* "start" before createTree has run, "built" after
    nodeById,   \* createTree's Map<string, CRAXNode>: node id -> CRAXNode
    order,      \* the Map's iteration order: its keys in first-insertion order
    root,       \* what createTree returned
    ret,        \* the last call on the built tree and its outcome
    stack       \* the frames of a _hasFocusableChild call that runs line by line

vars == <<payloads, pc, nodeById, order, root, ret, stack>>

-----------------------------------------------------------------------------
(* JavaScript values *)

Undefined == "#undefined"
Null == "#null"
JsTrue == "#true"
JsFalse == "#false"

\* ToBoolean: what `if (v)`, `!v` and `a || b` look at.
Truthy(v) == v \notin {JsFalse, "#0", "", Undefined, Null}

\* a boolean of the model as the JavaScript boolean
JsBool(b) == IF b THEN JsTrue ELSE JsFalse

\* String.prototype.toLowerCase, on the property names of the model's payloads
ToLowerCase(s) ==
    CASE s = "Focused" -> "focused"
      [] s = "KeyShortcuts" -> "keyshortcuts"
      [] OTHER -> s

-----------------------------------------------------------------------------
(* Sequences *)

Range(s) == {s[i] : i \in DOMAIN s}

\* all sequences over S of length at most n
SeqsUpTo(S, n) == UNION {[1..k -> S] : k \in 0..n}

-----------------------------------------------------------------------------
(* CRAXNode *)

\* `this._payload.properties || []`, `node._payload.childIds || []`
PropertiesOf(payload) == IF "properties" \in DOMAIN payload THEN payload.properties ELSE <<>>
ChildIdsOf(payload) == IF "childIds" \in DOMAIN payload THEN payload.childIds ELSE <<>>

\* one turn of the constructor's loop over the payload's properties
ApplyProperty(node, property) ==
    LET n1 == IF property.name = "editable"
              THEN [node EXCEPT !.richlyEditable = (property.value = "richtext"),
                                !.editable = TRUE]
              ELSE node
        n2 == IF property.name = "focusable" THEN [n1 EXCEPT !.focusable = property.value] ELSE n1
        n3 == IF property.name = "expanded" THEN [n2 EXCEPT !.expanded = property.value] ELSE n2
        n4 == IF property.name = "hidden" THEN [n3 EXCEPT !.hidden = property.value] ELSE n3
    IN n4

RECURSIVE ApplyProperties(_, _, _)
ApplyProperties(node, properties, i) ==
    IF i > Len(properties) THEN node
    ELSE ApplyProperties(ApplyProperty(node, properties[i]), properties, i + 1)

\* new CRAXNode(client, payload)
NewCRAXNode(payload) ==
    ApplyProperties(
        [payload |-> payload,
         children |-> <<>>,
         richlyEditable |-> FALSE,
         editable |-> FALSE,
         focusable |-> JsFalse,
         expanded |-> JsFalse,
         hidden |-> JsFalse,
         name |-> IF "name" \in DOMAIN payload THEN payload.name ELSE "",
         role |-> IF "role" \in DOMAIN payload THEN payload.role ELSE "Unknown",
         cachedHasFocusableChild |-> Undefined],
        PropertiesOf(payload), 1)

-----------------------------------------------------------------------------
(* createTree *)

\* the first loop: nodeById.set(payload.nodeId, new CRAXNode(client, payload)).
\* Map.set on a key the map holds replaces the value and keeps the key's place.
RECURSIVE SetAll(_, _, _)
SetAll(ps, i, m) ==
    IF i > Len(ps) THEN m
    ELSE LET id == ps[i].nodeId
             node == NewCRAXNode(ps[i])
         IN SetAll(ps, i + 1,
                   [byId |-> [k \in DOMAIN m.byId \cup {id} |->
                                 IF k = id THEN node ELSE m.byId[k]],
                    keys |-> IF id \in DOMAIN m.byId THEN m.keys ELSE Append(m.keys, id)])

\* nodeById.get(childId): the node, or undefined when the map has no such key
MapGet(byId, childId) == IF childId \in DOMAIN byId THEN childId ELSE Undefined

\* the second loop: node._children.push(nodeById.get(childId)) for every child id.
\* A node is referred to by its key in nodeById; a missing one is undefined.
PushChildren(byId) ==
    [k \in DOMAIN byId |->
        LET ids == ChildIdsOf(byId[k].payload)
        IN [byId[k] EXCEPT !.children = [i \in 1..Len(ids) |-> MapGet(byId, ids[i])]]]

\* as FirstValue, but the last value of the map instead of the first
LastValue(keys) == IF Len(keys) = 0 THEN Undefined ELSE keys[Len(keys)]

\* nodeById.values().next().value: the first value, undefined for an empty map
FirstValue(keys) == IF Len(keys) = 0 THEN Undefined ELSE keys[1]

\* CRAXNode.createTree(client, payloads), as [nodeById, order, root]
createTree(ps) ==
    LET m == SetAll(ps, 1, [byId |-> <<>>, keys |-> <<>>])
    IN [nodeById |-> PushChildren(m.byId), order |-> m.keys, root |-> FirstValue(m.keys)]

-----------------------------------------------------------------------------
(* Calls on the built tree.  A call ends by returning a value or by raising *)
(* an exception: [threw |-> FALSE, val |-> value] or [threw |-> TRUE,       *)
(* val |-> the exception's name].                                           *)

Returned(v) == [threw |-> FALSE, val |-> v]
Raised(e) == [threw |-> TRUE, val |-> e]

\* _hasFocusableChild on node n of the tree `nodes`: the outcome and the tree with
\* the caches as the call leaves them.  Reading `child._focusable` of an undefined
\* child raises a TypeError, which leaves every cache written so far as it is.
RECURSIVE hasFocusableChild(_, _), hasFocusableChildLoop(_, _, _)
hasFocusableChild(n, nodes) ==
    IF nodes[n].cachedHasFocusableChild = Undefined
    THEN hasFocusableChildLoop(n, 1, [nodes EXCEPT ![n].cachedHasFocusableChild = JsFalse])
    ELSE [nodes |-> nodes, out |-> Returned(nodes[n].cachedHasFocusableChild)]

\* the loop `for (const child of this._children)` from its i-th turn on
hasFocusableChildLoop(n, i, nodes) ==
    IF i > Len(nodes[n].children)
    THEN [nodes |-> nodes, out |-> Returned(nodes[n].cachedHasFocusableChild)]
    ELSE LET child == nodes[n].children[i] IN
         IF child = Undefined THEN [nodes |-> nodes, out |-> Raised("TypeError")]
         ELSE IF Truthy(nodes[child].focusable)
         THEN [nodes |-> [nodes EXCEPT ![n].cachedHasFocusableChild = JsTrue],
               out |-> Returned(JsTrue)]
         ELSE LET r == hasFocusableChild(child, nodes) IN
              IF r.out.threw THEN r
              ELSE IF Truthy(r.out.val)
              THEN [nodes |-> [r.nodes EXCEPT ![n].cachedHasFocusableChild = JsTrue],
                    out |-> Returned(JsTrue)]
              ELSE hasFocusableChildLoop(n, i + 1, r.nodes)

\* find(predicate) on node n, the predicate being `the node is in matching`:
\* the outcome and the nodes the predicate was called on, in order.  `depth`
\* is the depth of the recursion: past the number of nodes, a node is on its
\* own path, the recursion never ends and the call stack overflows (RangeError).
RECURSIVE find(_, _, _, _, _), findLoop(_, _, _, _, _, _)
find(n, matching, nodes, depth, calls) ==
    IF depth > Cardinality(DOMAIN nodes) THEN [out |-> Raised("RangeError"), calls |-> calls]
    ELSE IF n \in matching THEN [out |-> Returned(n), calls |-> Append(calls, n)]
    ELSE findLoop(n, 1, matching, nodes, depth, Append(calls, n))

\* the loop `for (const child of this._children)` from its i-th turn on
findLoop(n, i, matching, nodes, depth, calls) ==
    IF i > Len(nodes[n].children) THEN [out |-> Returned(Null), calls |-> calls]
    ELSE LET child == nodes[n].children[i] IN
         IF child = Undefined THEN [out |-> Raised("TypeError"), calls |-> calls]
         ELSE LET r == find(child, matching, nodes, depth + 1, calls) IN
              IF r.out.threw \/ r.out.val # Null THEN r
              ELSE findLoop(n, i + 1, matching, nodes, depth, r.calls)

-----------------------------------------------------------------------------
(* Classification *)

\* _isPlainTextField
isPlainTextField(node) ==
    IF node.richlyEditable THEN FALSE
    ELSE IF node.editable THEN TRUE
    ELSE node.role \in {"textbox", "ComboBox", "searchbox"}

\* _isTextOnlyObject
isTextOnlyObject(node) == node.role \in {"LineBreak", "text", "InlineTextBox"}

\* the roles of isLeafNode's switch
PresentationalRoles ==
    {"doc-cover", "graphics-symbol", "img", "Meter", "scrollbar", "slider", "separator",
     "progressbar"}

\* the roles of isControl's switch
ControlRoles ==
    {"button", "checkbox", "ColorWell", "combobox", "DisclosureTriangle", "listbox", "menu",
     "menubar", "menuitem", "menuitemcheckbox", "menuitemradio", "radio", "scrollbar",
     "searchbox", "slider", "spinbutton", "switch", "tab", "textbox", "tree"}

\* isControl
isControl(node) == node.role \in ControlRoles

\* isLeafNode on node n: the outcome and the tree with the caches it leaves
isLeafNode(n, nodes) ==
    LET node == nodes[n] IN
    IF Len(node.children) = 0 THEN [nodes |-> nodes, out |-> Returned(JsTrue)]
    ELSE IF isPlainTextField(node) \/ isTextOnlyObject(node)
    THEN [nodes |-> nodes, out |-> Returned(JsTrue)]
    ELSE IF node.role \in PresentationalRoles THEN [nodes |-> nodes, out |-> Returned(JsTrue)]
    ELSE LET r == hasFocusableChild(n, nodes) IN
         IF r.out.threw THEN r
         ELSE IF Truthy(r.out.val) THEN [nodes |-> r.nodes, out |-> Returned(JsFalse)]
         ELSE IF Truthy(node.focusable) /\ Truthy(node.name)
         THEN [nodes |-> r.nodes, out |-> Returned(JsTrue)]
         ELSE IF node.role = "heading" /\ Truthy(node.name)
         THEN [nodes |-> r.nodes, out |-> Returned(JsTrue)]
         ELSE [nodes |-> r.nodes, out |-> Returned(JsFalse)]

\* isInteresting(insideControl) on node n
isInteresting(n, insideControl, nodes) ==
    LET node == nodes[n] IN
    IF node.role = "Ignored" \/ Truthy(node.hidden)
    THEN [nodes |-> nodes, out |-> Returned(JsFalse)]
    ELSE IF Truthy(node.focusable) \/ node.richlyEditable
    THEN [nodes |-> nodes, out |-> Returned(JsTrue)]
    ELSE IF isControl(node) THEN [nodes |-> nodes, out |-> Returned(JsTrue)]
    ELSE IF insideControl THEN [nodes |-> nodes, out |-> Returned(JsFalse)]
    ELSE LET r == isLeafNode(n, nodes) IN
         IF r.out.threw THEN r
         ELSE [nodes |-> r.nodes,
               out |-> Returned(JsBool(Truthy(r.out.val) /\ Truthy(node.name)))]

-----------------------------------------------------------------------------
(* Serialization *)

\* Map.set / an object's field assignment, on a map kept as a function
Put(m, k, v) == [x \in DOMAIN m \cup {k} |-> IF x = k THEN v ELSE m[x]]

\* Map.get: undefined for a key the map does not hold
Get(m, k) == IF k \in DOMAIN m THEN m[k] ELSE Undefined

\* two maps with no key in common, as one
Merge(f, g) == [x \in DOMAIN f \cup DOMAIN g |-> IF x \in DOMAIN f THEN f[x] ELSE g[x]]

\* properties.set(property.name.toLowerCase(), property.value.value), in order
RECURSIVE SetProperties(_, _, _)
SetProperties(m, properties, i) ==
    IF i > Len(properties) THEN m
    ELSE SetProperties(Put(m, ToLowerCase(properties[i].name), properties[i].value),
                       properties, i + 1)

\* the dedicated payload field, when the payload has it, over the property
SetField(m, payload, field) == IF field \in DOMAIN payload THEN Put(m, field, payload[field]) ELSE m

\* serialize's `properties` map
PropertyMap(payload) ==
    SetField(SetField(SetField(SetProperties(<<>>, PropertiesOf(payload), 1),
                               payload, "name"), payload, "value"), payload, "description")

userStringProperties == {"value", "description", "keyshortcuts", "roledescription", "valuetext"}
booleanProperties ==
    {"disabled", "expanded", "focused", "modal", "multiline", "multiselectable", "readonly",
     "required", "selected"}
tristateProperties == {"checked", "pressed"}
numericalProperties == {"level", "valuemax", "valuemin"}
tokenProperties == {"autocomplete", "haspopup", "invalid", "orientation"}

\* value === 'mixed' ? 'mixed' : value === 'true' ? true : false
Tristate(value) == IF value = "mixed" THEN "mixed" ELSE IF value = "true" THEN JsTrue ELSE JsFalse

\* the fields each of serialize's five loops writes
UserStringFields(properties) ==
    [f \in {f \in userStringProperties : f \in DOMAIN properties} |-> properties[f]]

\* as BooleanFields, but a boolean field the node has no property for is
\* written as false instead of being left out
BooleanFieldsDefaulted(properties, role) ==
    [f \in {f \in booleanProperties : ~(f = "focused" /\ role = "WebArea")} |->
        IF Truthy(Get(properties, f)) THEN properties[f] ELSE JsFalse]

BooleanFields(properties, role) ==
    [f \in {f \in booleanProperties :
              /\ ~(f = "focused" /\ role = "WebArea")
              /\ Truthy(Get(properties, f))} |-> properties[f]]

TristateFields(properties) ==
    [f \in {f \in tristateProperties : f \in DOMAIN properties} |-> Tristate(properties[f])]

NumericalFields(properties) ==
    [f \in {f \in numericalProperties : f \in DOMAIN properties} |-> properties[f]]

TokenFields(properties) ==
    [f \in {f \in tokenProperties :
              Truthy(Get(properties, f)) /\ Get(properties, f) # "false"} |-> properties[f]]

\* serialize on a node.  `this._payload.name.value` of a payload with no name
\* reads a field of undefined: a TypeError.
serialize(node) ==
    LET payload == node.payload
        properties == PropertyMap(payload)
    IN IF "name" \notin DOMAIN payload THEN Raised("TypeError")
       ELSE Returned(
              Merge([role |-> node.role,
                     name |-> IF Truthy(payload.name) THEN payload.name ELSE ""],
              Merge(UserStringFields(properties),
              Merge(BooleanFields(properties, node.role),
              Merge(TristateFields(properties),
              Merge(NumericalFields(properties), TokenFields(properties)))))))

NoRet == [op |-> "none"]

CreateTree ==
    /\ pc = "start"
    /\ LET t == createTree(payloads)
       IN /\ nodeById' = t.nodeById
          /\ order' = t.order
          /\ root' = t.root
    /\ pc' = "built"
    /\ UNCHANGED <<payloads, ret, stack>>

-----------------------------------------------------------------------------
(* The snapshot: the records getAccessibilityTree receives and hands over *)

MaxNodes == 3       \* records in one snapshot
MaxChildIds == 2    \* ids in one record's childIds
MaxEdges == 2       \* child ids in one snapshot, all records together

NodeIdPool == <<"a", "b", "c", "d", "e", "f">>
DanglingId == "x9"  \* an id that no record of any snapshot has

Min(a, b) == IF a < b THEN a ELSE b

RECURSIVE Edges(_, _)
Edges(ps, i) == IF i > Len(ps) THEN 0 ELSE Len(ChildIdsOf(ps[i])) + Edges(ps, i + 1)

NodeIdsOf(ps) == {ps[i].nodeId : i \in DOMAIN ps}

\* The nodeId of the next record, up to renaming: it repeats an earlier record's
\* id or is the next unused id of the pool.
NextNodeIds(ps) ==
    {NodeIdPool[j] : j \in 1..Min(Cardinality(NodeIdsOf(ps)) + 1, Len(NodeIdPool))}

\* the ids a childIds list may name: those a snapshot can hold, and the dangling one
ChildIdPool == {NodeIdPool[j] : j \in 1..Min(MaxNodes, Len(NodeIdPool))} \cup {DanglingId}

\* the childIds of the next record: missing ("none"), or a list within the bounds
ChildIdLists(ps) == SeqsUpTo(ChildIdPool, Min(MaxEdges - Edges(ps, 1), MaxChildIds))

\* the bare records of the tree builder: nodeId and childIds
TreeRecords(ps) ==
    {[nodeId |-> id] : id \in NextNodeIds(ps)} \cup
    {[nodeId |-> id, childIds |-> c] : id \in NextNodeIds(ps), c \in ChildIdLists(ps)}

InitCommon ==
    /\ payloads = <<>>
    /\ pc = "start"
    /\ nodeById = <<>>
    /\ order = <<>>
    /\ root = Undefined
    /\ ret = NoRet
    /\ stack = <<>>

\* one more record of the Accessibility.getFullAXTree response
ReceiveRecord(records) ==
    /\ pc = "start"
    /\ Len(payloads) < MaxNodes
    /\ payloads' = Append(payloads, records)
    /\ UNCHANGED <<pc, nodeById, order, root, ret, stack>>

\* node._hasFocusableChild()
HasFocusableChild ==
    /\ pc = "built"
    /\ \E n \in DOMAIN nodeById :
         LET r == hasFocusableChild(n, nodeById) IN
         /\ nodeById' = r.nodes
         /\ ret' = [op |-> "hasFocusableChild", node |-> n, out |-> r.out]
    /\ UNCHANGED <<payloads, pc, order, root, stack>>

\* node.find(predicate)
Find ==
    /\ pc = "built"
    /\ \E n \in DOMAIN nodeById, matching \in SUBSET DOMAIN nodeById :
         LET r == find(n, matching, nodeById, 1, <<>>) IN
         ret' = [op |-> "find", node |-> n, matching |-> matching, out |-> r.out,
                 calls |-> r.calls]
    /\ UNCHANGED <<payloads, pc, nodeById, order, root, stack>>

\* node.isLeafNode()
IsLeafNode ==
    /\ pc = "built"
    /\ \E n \in DOMAIN nodeById :
         LET r == isLeafNode(n, nodeById) IN
         /\ nodeById' = r.nodes
         /\ ret' = [op |-> "isLeafNode", node |-> n, out |-> r.out]
    /\ UNCHANGED <<payloads, pc, order, root, stack>>

\* node.isInteresting(insideControl)
IsInteresting ==
    /\ pc = "built"
    /\ \E n \in DOMAIN nodeById, insideControl \in BOOLEAN :
         LET r == isInteresting(n, insideControl, nodeById) IN
         /\ nodeById' = r.nodes
         /\ ret' = [op |-> "isInteresting", node |-> n, insideControl |-> insideControl,
                    out |-> r.out]
    /\ UNCHANGED <<payloads, pc, order, root, stack>>

\* node.serialize()
Serialize ==
    /\ pc = "built"
    /\ \E n \in DOMAIN nodeById :
         ret' = [op |-> "serialize", node |-> n, out |-> serialize(nodeById[n])]
    /\ UNCHANGED <<payloads, pc, nodeById, order, root, stack>>

-----------------------------------------------------------------------------
(* The tree builder alone *)

ReceiveBuild == \E p \in TreeRecords(payloads) : ReceiveRecord(p)

NextBuild == ReceiveBuild \/ CreateTree

SpecBuild == InitCommon /\ [][NextBuild]_vars

-----------------------------------------------------------------------------
(* The focusable-descendant cache *)

FocusableProperty == [name |-> "focusable", value |-> JsTrue]

\* the tree builder's records, each with or without `focusable: true`
FocusRecords(ps) ==
    TreeRecords(ps) \cup
    {[f \in DOMAIN p \cup {"properties"} |->
         IF f = "properties" THEN <<FocusableProperty>> ELSE p[f]] : p \in TreeRecords(ps)}

ReceiveFocus == \E p \in FocusRecords(payloads) : ReceiveRecord(p)

NextFocus == ReceiveFocus \/ CreateTree \/ HasFocusableChild

SpecFocus == InitCommon /\ [][NextFocus]_vars

-----------------------------------------------------------------------------
(* The search *)

ReceiveFind == \E p \in TreeRecords(payloads) : ReceiveRecord(p)

NextFind == ReceiveFind \/ CreateTree \/ Find

SpecFind == InitCommon /\ [][NextFind]_vars

-----------------------------------------------------------------------------
(* Classification *)

\* a record with the fields of r and of extra (extra's over r's)
WithFields(r, extra) == Merge(extra, r)

\* a record without the fields whose value is "none": a missing optional field
None == "none"
Strip(r) == [f \in {f \in DOMAIN r : r[f] # None} |-> r[f]]

ClassifyRoles ==
    {None, "textbox", "text", "Meter", "meter", "heading", "button", "Ignored", "ignored"}
ClassifyNames == {None, "n"}
ClassifyProperties ==
    {<<>>, <<FocusableProperty>>, <<[name |-> "editable", value |-> "plaintext"]>>,
     <<[name |-> "editable", value |-> "richtext"]>>, <<[name |-> "hidden", value |-> JsTrue]>>}

\* The first record carries a role, a name, a property and the child ids; the
\* others are its childless children, focusable or not, each with an id of its own.
ClassifyRecords(ps) ==
    IF ps # <<>>
    THEN LET id == NodeIdPool[Len(ps) + 1]
         IN {[nodeId |-> id], [nodeId |-> id, properties |-> <<FocusableProperty>>]}
    ELSE {WithFields(WithFields(p, Strip([role |-> r, name |-> n])), [properties |-> pr]) :
            p \in TreeRecords(ps), r \in ClassifyRoles, n \in ClassifyNames,
            pr \in ClassifyProperties}

ReceiveClassify == \E p \in ClassifyRecords(payloads) : ReceiveRecord(p)

NextClassify == ReceiveClassify \/ CreateTree \/ IsLeafNode \/ IsInteresting

SpecClassify == InitCommon /\ [][NextClassify]_vars

-----------------------------------------------------------------------------
(* Serialization *)

MaxProperties == 2  \* properties in one record

SerializeNames ==
    <<"disabled", "Focused", "checked", "level", "invalid", "KeyShortcuts", "value">>
SerializeValues == {JsTrue, JsFalse, "true", "false", "mixed"}

\* The property lists of at most k properties whose names are at places from..Len
\* of SerializeNames, in that order (the order of two properties matters only
\* when they have the same name, and then both orders of their values are here).
RECURSIVE PropertyLists(_, _)
PropertyLists(from, k) ==
    IF k = 0 THEN {<<>>}
    ELSE {<<>>} \cup
         UNION {{<<[name |-> SerializeNames[j], value |-> v]>> \o rest :
                   v \in SerializeValues, rest \in PropertyLists(j, k - 1)}
                : j \in from..Len(SerializeNames)}

SerializeRecords ==
    {Strip([nodeId |-> "a", role |-> r, name |-> n, value |-> v, description |-> d]) :
        r \in {None, "WebArea"}, n \in {None, "n"}, v \in {None, "v"},
        d \in {None, "d"}}

\* serialize reads the node's own payload and role only: a snapshot of one record
ReceiveSerialize ==
    /\ payloads = <<>>
    /\ \E p \in SerializeRecords :
         \/ ReceiveRecord(p)
         \/ \E pr \in PropertyLists(1, MaxProperties) :
              ReceiveRecord(WithFields(p, [properties |-> pr]))

NextSerialize == ReceiveSerialize \/ CreateTree \/ Serialize

SpecSerialize == InitCommon /\ [][NextSerialize]_vars

-----------------------------------------------------------------------------
(* _hasFocusableChild line by line.  The method is synchronous JavaScript: a  *)
(* call runs on the one call stack until it returns or raises, and no other   *)
(* call on the tree starts before that.  A frame is the node the method runs  *)
(* on, the line it is at and the turn of its loop; the last frame is the one  *)
(* that runs.                                                                 *)

Top == stack[Len(stack)]

\* the stack with its running frame moved to `line`, at turn i of the loop
Goto(line, i) == [stack EXCEPT ![Len(stack)] = [node |-> Top.node, line |-> line, i |-> i]]

\* the stack without its last frame
Pop(s) == SubSeq(s, 1, Len(s) - 1)

\* a caller invokes node._hasFocusableChild() on a node of the built tree
CallHasFocusableChild ==
    /\ pc = "built"
    /\ stack = <<>>
    /\ \E n \in DOMAIN nodeById :
         /\ stack' = <<[node |-> n, line |-> 77, i |-> 0]>>
         /\ ret' = [op |-> "calling", node |-> n]
    /\ UNCHANGED <<payloads, pc, nodeById, order, root>>

\* line 77: if (this._cachedHasFocusableChild === undefined)
TestCache ==
    /\ stack # <<>>
    /\ Top.line = 77
    /\ stack' = IF nodeById[Top.node].cachedHasFocusableChild = Undefined
                THEN Goto(78, 0) ELSE Goto(86, 0)
    /\ UNCHANGED <<payloads, pc, nodeById, order, root, ret>>

\* line 78: this._cachedHasFocusableChild = false
WriteFalse ==
    /\ stack # <<>>
    /\ Top.line = 78
    /\ nodeById' = [nodeById EXCEPT ![Top.node].cachedHasFocusableChild = JsFalse]
    /\ stack' = Goto(79, 1)
    /\ UNCHANGED <<payloads, pc, order, root, ret>>

\* line 79: for (const child of this._children), the next child or the loop's end
NextChild ==
    /\ stack # <<>>
    /\ Top.line = 79
    /\ stack' = IF Top.i > Len(nodeById[Top.node].children) THEN Goto(86, 0) ELSE Goto(80, Top.i)
    /\ UNCHANGED <<payloads, pc, nodeById, order, root, ret>>

\* line 80: child._focusable of an undefined child raises a TypeError, which no
\* frame catches: the stack unwinds and the caches stay as they are
ReadUndefinedChild ==
    /\ stack # <<>>
    /\ Top.line = 80
    /\ nodeById[Top.node].children[Top.i] = Undefined
    /\ stack' = <<>>
    /\ ret' = [op |-> "hasFocusableChild", node |-> stack[1].node, out |-> Raised("TypeError")]
    /\ UNCHANGED <<payloads, pc, nodeById, order, root>>

\* line 80: child._focusable is truthy, the condition holds
ChildIsFocusable ==
    /\ stack # <<>>
    /\ Top.line = 80
    /\ nodeById[Top.node].children[Top.i] # Undefined
    /\ Truthy(nodeById[nodeById[Top.node].children[Top.i]].focusable)
    /\ stack' = Goto(81, Top.i)
    /\ UNCHANGED <<payloads, pc, nodeById, order, root, ret>>

\* line 80: child._focusable is falsy, so child._hasFocusableChild() is called
CallChild ==
    /\ stack # <<>>
    /\ Top.line = 80
    /\ nodeById[Top.node].children[Top.i] # Undefined
    /\ ~Truthy(nodeById[nodeById[Top.node].children[Top.i]].focusable)
    /\ stack' = Append(stack, [node |-> nodeById[Top.node].children[Top.i], line |-> 77, i |-> 0])
    /\ UNCHANGED <<payloads, pc, nodeById, order, root, ret>>

\* lines 81 and 82: this._cachedHasFocusableChild = true; break
WriteTrue ==
    /\ stack # <<>>
    /\ Top.line = 81
    /\ nodeById' = [nodeById EXCEPT ![Top.node].cachedHasFocusableChild = JsTrue]
    /\ stack' = Goto(86, 0)
    /\ UNCHANGED <<payloads, pc, order, root, ret>>

\* line 86 in a frame that a frame at line 80 called: the returned value decides
\* the caller's condition
ReturnToParent ==
    /\ Len(stack) > 1
    /\ Top.line = 86
    /\ LET caller == stack[Len(stack) - 1]
           next == IF Truthy(nodeById[Top.node].cachedHasFocusableChild)
                   THEN [caller EXCEPT !.line = 81]
                   ELSE [caller EXCEPT !.line = 79, !.i = caller.i + 1]
       IN stack' = Append(Pop(Pop(stack)), next)
    /\ UNCHANGED <<payloads, pc, nodeById, order, root, ret>>

\* line 86 in the first frame: the call returns to its caller
ReturnToCaller ==
    /\ Len(stack) = 1
    /\ Top.line = 86
    /\ stack' = <<>>
    /\ ret' = [op |-> "hasFocusableChild", node |-> Top.node,
               out |-> Returned(nodeById[Top.node].cachedHasFocusableChild)]
    /\ UNCHANGED <<payloads, pc, nodeById, order, root>>

NextCache ==
    \/ ReceiveFocus
    \/ CreateTree
    \/ CallHasFocusableChild
    \/ TestCache
    \/ WriteFalse
    \/ NextChild
    \/ ReadUndefinedChild
    \/ ChildIsFocusable
    \/ CallChild
    \/ WriteTrue
    \/ ReturnToParent
    \/ ReturnToCaller

SpecCache == InitCommon /\ [][NextCache]_vars

-----------------------------------------------------------------------------
(* What the claims speak of, stated on the snapshot and on the built tree     *)
(* without the code's own traversals.                                         *)

\* some record's childIds names an id that is the nodeId of no record
HasDanglingChildId(ps) ==
    \E i \in DOMAIN ps : \E j \in DOMAIN ChildIdsOf(ps[i]) : ChildIdsOf(ps[i])[j] \notin NodeIdsOf(ps)

\* no two records have the same nodeId
UniqueNodeIds(ps) == \A i, j \in DOMAIN ps : ps[i].nodeId = ps[j].nodeId => i = j

\* some node's children list holds an undefined entry
HasUndefinedChild == \E n \in DOMAIN nodeById : Undefined \in Range(nodeById[n].children)

\* the nodes among n's children
ChildNodes(n) == Range(nodeById[n].children) \ {Undefined}

\* the nodes reachable from the nodes of `frontier` by one or more child links
RECURSIVE ReachableFrom(_, _)
ReachableFrom(frontier, seen) ==
    LET next == UNION {ChildNodes(n) : n \in frontier} \ seen
    IN IF next = {} THEN seen ELSE ReachableFrom(next, seen \cup next)

\* the transitive descendants of n: children, grandchildren, ... (n itself only
\* when it lies on a cycle)
Descendants(n) == ReachableFrom({n}, {})

Acyclic == \A n \in DOMAIN nodeById : n \notin Descendants(n)

\* some transitive descendant of n is focusable
HasFocusableDescendant(n) == \E d \in Descendants(n) : nodeById[d].focusable = JsTrue

\* the nodes of the subtree of n in depth-first pre-order (of an acyclic tree)
RECURSIVE PreOrder(_), PreOrderOfChildren(_, _)
PreOrder(n) == <<n>> \o PreOrderOfChildren(nodeById[n].children, 1)
PreOrderOfChildren(children, i) ==
    IF i > Len(children) THEN <<>>
    ELSE (IF children[i] = Undefined THEN <<>> ELSE PreOrder(children[i]))
         \o PreOrderOfChildren(children, i + 1)

\* the first i elements of s
Prefix(s, i) == [j \in 1..i |-> s[j]]

\* the value of the node's property named f (lower-cased), the last such property
\* deciding; undefined when it has none
PropertyValue(payload, f) ==
    LET ps == PropertiesOf(payload)
        at == {i \in DOMAIN ps : ToLowerCase(ps[i].name) = f}
    IN IF at = {} THEN Undefined ELSE ps[CHOOSE i \in at : \A j \in at : j <= i].value

\* the values the payload supplies for the output field f
SuppliedValues(payload, f) ==
    {PropertiesOf(payload)[i].value :
        i \in {i \in DOMAIN PropertiesOf(payload) : ToLowerCase(PropertiesOf(payload)[i].name) = f}}
    \cup (IF f \in {"value", "description"} /\ f \in DOMAIN payload THEN {payload[f]} ELSE {})

OptionalFields ==
    userStringProperties \cup booleanProperties \cup tristateProperties
    \cup numericalProperties \cup tokenProperties

\* the ordered rule list of isLeafNode, with `presentational` as its role set
LeafRule(n, presentational) ==
    LET node == nodeById[n] IN
    IF Len(node.children) = 0 THEN TRUE
    ELSE IF isPlainTextField(node) \/ isTextOnlyObject(node) THEN TRUE
    ELSE IF node.role \in presentational THEN TRUE
    ELSE IF HasFocusableDescendant(n) THEN FALSE
    ELSE IF node.focusable = JsTrue /\ node.name # "" THEN TRUE
    ELSE IF node.role = "heading" /\ node.name # "" THEN TRUE
    ELSE FALSE

\* the ordered rule list of isInteresting, with `ignored` as the ignored role
InterestingRule(n, insideControl, ignored) ==
    LET node == nodeById[n] IN
    IF node.role = ignored \/ node.hidden = JsTrue THEN FALSE
    ELSE IF node.focusable = JsTrue \/ node.richlyEditable THEN TRUE
    ELSE IF isControl(node) THEN TRUE
    ELSE IF insideControl THEN FALSE
    ELSE LeafRule(n, PresentationalRoles) /\ node.name # ""

\* the role set and the ignored role as the specification spells them
SpecPresentationalRoles ==
    {"doc-cover", "graphics-symbol", "img", "meter", "scrollbar", "slider", "separator",
     "progressbar"}
SpecIgnoredRole == "ignored"

-----------------------------------------------------------------------------
(* The claims *)

\* C1: for every record set in which some childIds names an id of no record,
\* createTree fails (DanglingChildReference): it never returns a root, and never
\* returns a tree in which a children list holds an undefined entry.
C1_DanglingChildReference ==
    pc = "built" => (~HasDanglingChildId(payloads) /\ ~HasUndefinedChild)

\* C2: serialize is total and always emits role and name: for every node it
\* returns a record holding role (the payload's, or "unknown" when the payload has
\* none) and name (the payload's, or the empty string when it has none).
C2_SerializeTotal ==
    ret.op = "serialize" =>
        LET payload == nodeById[ret.node].payload IN
        /\ ~ret.out.threw
        /\ {"role", "name"} \subseteq DOMAIN ret.out.val
        /\ ret.out.val["role"] = (IF "role" \in DOMAIN payload THEN payload.role ELSE "unknown")
        /\ ret.out.val["name"] = (IF "name" \in DOMAIN payload THEN payload.name ELSE "")

\* C3: on every acyclic tree createTree built, whatever calls came before,
\* n.hasFocusableChild() returns true if and only if some transitive descendant
\* of n is focusable (so every later call returns what the first returned).
C3_HasFocusableChild ==
    (ret.op = "hasFocusableChild" /\ Acyclic) =>
        /\ ~ret.out.threw
        /\ ret.out.val = JsBool(HasFocusableDescendant(ret.node))

\* C4: isLeafNode is the specification's ordered rule list for every node, the
\* presentational roles being {doc-cover, graphics-symbol, img, meter, scrollbar,
\* slider, separator, progressbar}.
C4_IsLeafNode ==
    (ret.op = "isLeafNode" /\ Acyclic) =>
        /\ ~ret.out.threw
        /\ ret.out.val = JsBool(LeafRule(ret.node, SpecPresentationalRoles))

\* C5: isInteresting(insideControl) is the specification's ordered rule list for
\* every node and both values of insideControl, the ignored role being "ignored".
C5_IsInteresting ==
    (ret.op = "isInteresting" /\ Acyclic) =>
        /\ ~ret.out.threw
        /\ ret.out.val = JsBool(InterestingRule(ret.node, ret.insideControl, SpecIgnoredRole))

\* C6: on every built tree, for every start node and predicate, find returns the
\* first node of the start node's subtree, in depth-first pre-order, that
\* satisfies the predicate, returns null if and only if none does, and calls the
\* predicate on no node after the one it returns.
C6_Find ==
    (ret.op = "find" /\ Acyclic) =>
        LET visit == PreOrder(ret.node)
            hits == {i \in DOMAIN visit : visit[i] \in ret.matching}
        IN /\ ~ret.out.threw
           /\ IF hits = {}
              THEN ret.out.val = Null /\ ret.calls = visit
              ELSE LET first == CHOOSE i \in hits : \A j \in hits : i <= j
                   IN ret.out.val = visit[first] /\ ret.calls = Prefix(visit, first)

\* C7: every optional field of the record serialize returns was supplied by the
\* node's payload, as a property whose lower-cased name is the field or, for
\* value and description, as the payload's own field; and the field's value is a
\* supplied one (for checked and pressed, the tristate reading of a supplied one).
C7_OnlySuppliedFields ==
    (ret.op = "serialize" /\ ~ret.out.threw) =>
        LET payload == nodeById[ret.node].payload IN
        \A f \in DOMAIN ret.out.val \cap OptionalFields :
            /\ SuppliedValues(payload, f) # {}
            /\ IF f \in tristateProperties
               THEN \E v \in SuppliedValues(payload, f) : ret.out.val[f] = Tristate(v)
               ELSE ret.out.val[f] \in SuppliedValues(payload, f)

\* a serialized record that holds optional fields, one of them from a property
\* whose name is not in lower case
C7_Witness ==
    /\ ret.op = "serialize"
    /\ ~ret.out.threw
    /\ {"focused", "checked"} \subseteq DOMAIN ret.out.val

\* C8: a boolean field b is in the serialize output if and only if the node's
\* property b is truthy and it is not the case that b = focused and role = WebArea.
C8_BooleanFields ==
    ret.op = "serialize" =>
        LET node == nodeById[ret.node] IN
        \A b \in booleanProperties :
            (~ret.out.threw /\ b \in DOMAIN ret.out.val)
            <=> (Truthy(PropertyValue(node.payload, b)) /\ ~(b = "focused" /\ node.role = "WebArea"))

\* C9: createTree called with no record fails (EmptyNodeSet): it never returns.
C9_EmptyNodeSet == pc = "built" => payloads # <<>>

\* C10: for a non-empty record set with unique ids and no dangling child id,
\* createTree returns the node of the first record, every record has its node,
\* and the node's children are the nodes of the record's childIds, in order and
\* with multiplicity (none when childIds is missing).
C10_TreeShape ==
    (pc = "built" /\ payloads # <<>> /\ UniqueNodeIds(payloads) /\ ~HasDanglingChildId(payloads)) =>
        /\ root = payloads[1].nodeId
        /\ DOMAIN nodeById = NodeIdsOf(payloads)
        /\ \A i \in DOMAIN payloads :
              /\ nodeById[payloads[i].nodeId].payload = payloads[i]
              /\ nodeById[payloads[i].nodeId].children = ChildIdsOf(payloads[i])

\* a tree of three nodes whose root has two children
C10_Witness ==
    /\ pc = "built"
    /\ UniqueNodeIds(payloads)
    /\ ~HasDanglingChildId(payloads)
    /\ Len(payloads) = 3
    /\ Len(nodeById[root].children) = 2

\* the cache of node n is unset or says whether a transitive descendant of n is
\* focusable
CacheUnsetOrCorrect(n) ==
    nodeById[n].cachedHasFocusableChild \in {Undefined, JsBool(HasFocusableDescendant(n))}

\* C11: the hasFocusableChild cache is only ever written with the one correct
\* value: in every reachable state of a tree, the states in the middle of an
\* evaluation included, each node's cache is unset or equal to (some transitive
\* descendant is focusable), and so every evaluation returns the correct value.
C11_CacheOnlyCorrectValue ==
    (pc = "built" /\ Acyclic) =>
        /\ \A n \in DOMAIN nodeById : CacheUnsetOrCorrect(n)
        /\ ret.op = "hasFocusableChild" =>
              /\ ~ret.out.threw
              /\ ret.out.val = JsBool(HasFocusableDescendant(ret.node))

-----------------------------------------------------------------------------
(* What holds of the calls that C1's and C2's failures do not reach *)

\* hasFocusableChild is right on the acyclic trees with no undefined child
HasFocusableChildOnTrees ==
    (ret.op = "hasFocusableChild" /\ Acyclic /\ ~HasUndefinedChild) =>
        /\ ~ret.out.threw
        /\ ret.out.val = JsBool(HasFocusableDescendant(ret.node))

\* find is right on the acyclic trees with no undefined child
FindOnTrees == ~HasUndefinedChild => C6_Find

\* isLeafNode is the rule list with the code's role set on such trees
IsLeafNodeOnTrees ==
    (ret.op = "isLeafNode" /\ Acyclic /\ ~HasUndefinedChild) =>
        /\ ~ret.out.threw
        /\ ret.out.val = JsBool(LeafRule(ret.node, PresentationalRoles))

\* isInteresting is the rule list with the code's ignored role on such trees
IsInterestingOnTrees ==
    (ret.op = "isInteresting" /\ Acyclic /\ ~HasUndefinedChild) =>
        /\ ~ret.out.threw
        /\ ret.out.val = JsBool(InterestingRule(ret.node, ret.insideControl, "Ignored"))

\* the boolean fields are as C8 says in every record serialize returns
BooleanFieldsWhenReturned == (ret.op = "serialize" /\ ~ret.out.threw) => C8_BooleanFields

\* the nodes a frame of the running evaluation is on
NodesInProgress == {stack[k].node : k \in DOMAIN stack}

\* on the acyclic trees with no undefined child, a cache holds a wrong value
\* only while the node's own evaluation is in progress,
WrongCacheOnlyInProgress ==
    (pc = "built" /\ Acyclic /\ ~HasUndefinedChild) =>
        \A n \in DOMAIN nodeById : CacheUnsetOrCorrect(n) \/ n \in NodesInProgress

\* and every finished evaluation has returned the correct value
CacheCorrectAtRest ==
    (pc = "built" /\ Acyclic /\ ~HasUndefinedChild /\ stack = <<>>) =>
        /\ \A n \in DOMAIN nodeById : CacheUnsetOrCorrect(n)
        /\ ret.op = "hasFocusableChild" =>
              /\ ~ret.out.threw
              /\ ret.out.val = JsBool(HasFocusableDescendant(ret.node))

=============================================================================
